---- MODULE Spec2Model ----
(***************************************************************************)
(* Jira-Gitlab-MR-POC: the diff annotator of getReviewSuggestions, the two *)
(* buildJiraADFFromText document compilers, the main flow of mergeMR.js    *)
(* and the run flow of the postMR scripts.                                 *)
(*                                                                         *)
(* A JavaScript string is a sequence of one-character strings, so that     *)
(* trim, startsWith, slice, split, the regular expressions, parseInt and   *)
(* the number formatting of template literals are computed, not assumed.   *)
(***************************************************************************)
EXTENDS Integers, Sequences, FiniteSets, TLC

VARIABLES
  \* ---- getReviewSuggestions, the per-file callback of changes.map ----
  dpc,          \* "idle" | "scan" | "done"
  lines,        \* c.diff.split("\n")
  dIdx,         \* number of lines the for-of loop has consumed
  oldLine,
  newLine,
  fileContent,  \* `content`, as the sequence of its "\n"-terminated lines
  \* ---- buildJiraADFFromText (mergeMR.js and postMergeJira.js) ----
  apc,          \* "idle" | "scan" | "done" | "raised"
  variant,      \* "mergeMR" | "postMergeJira": which script's compiler runs
  docLines,     \* text.split("\n")
  aIdx,         \* number of lines the for-of loop has consumed
  content,      \* the block nodes pushed so far
  currentList,  \* <<>> for null, <<list>> for an open bulletList (mergeMR.js)
  inCodeBlock,
  codeText,
  codeLang,
  \* ---- mergeMR.js: main ----
  mpc,          \* the statement main is at; "caught" in its catch block
  jiraTickets,
  tIdx,         \* number of tickets the for-of loop has finished
  calls,        \* the write requests sent so far: comment, assign, merge
  \* ---- the postMR scripts: run ----
  ppc,          \* the statement run is at; "fatal" in its catch block
  script,       \* "postMR" | "postMRJira"
  changes,      \* the new_path of every entry of the MR's diffs
  raw,          \* the file of every suggestion of the model's answer
  diffRefs,     \* whether mr.diff_refs is present
  suggestions,
  sIdx,         \* number of suggestions the for-of loop has finished
  posted        \* new_path of every POST to the discussions endpoint

diffVars == <<dpc, lines, dIdx, oldLine, newLine, fileContent>>
adfVars == <<apc, variant, docLines, aIdx, content, currentList, inCodeBlock, codeText, codeLang>>
mergeVars == <<mpc, jiraTickets, tIdx, calls>>
postVars == <<ppc, script, changes, raw, diffRefs, suggestions, sIdx, posted>>
vars == <<diffVars, adfVars, mergeVars, postVars>>

nonDiffVars == <<adfVars, mergeVars, postVars>>
nonAdfVars == <<diffVars, mergeVars, postVars>>
nonMergeVars == <<diffVars, adfVars, postVars>>
nonPostVars == <<diffVars, adfVars, mergeVars>>

\* ------------------------------------------------------------------------
\* Bounds
\* ------------------------------------------------------------------------
MaxDiffLines == 4
MaxDocLines == 3
MaxMatches == 3
MaxSuggestions == 2

\* ------------------------------------------------------------------------
\* Strings
\* ------------------------------------------------------------------------
NL == "\n"

SeqsUpTo(S, n) == UNION {[1..k -> S] : k \in 0..n}

StartsWith(s, p) == Len(s) >= Len(p) /\ SubSeq(s, 1, Len(p)) = p

\* s.substring(k) / s.slice(k) for 0 <= k
Substring(s, k) == SubSeq(s, k + 1, Len(s))

\* the literal lit occurs in s at (1-based) position i
LitAt(s, i, lit) == i + Len(lit) - 1 <= Len(s) /\ SubSeq(s, i, i + Len(lit) - 1) = lit

Digits == <<"0", "1", "2", "3", "4", "5", "6", "7", "8", "9">>

IsDigit(c) == \E d \in 1..10 : Digits[d] = c

DigitVal(c) == (CHOOSE d \in 1..10 : Digits[d] = c) - 1

\* parseInt of a string of decimal digits
RECURSIVE ParseInt(_)
ParseInt(s) ==
  IF s = <<>> THEN 0
  ELSE 10 * ParseInt(SubSeq(s, 1, Len(s) - 1)) + DigitVal(s[Len(s)])

\* `${n}` for an integer n
RECURSIVE NumToString(_)
NumToString(n) ==
  IF n < 0 THEN <<"-">> \o NumToString(0 - n)
  ELSE IF n < 10 THEN <<Digits[n + 1]>>
  ELSE NumToString(n \div 10) \o <<Digits[(n % 10) + 1]>>

\* text.split("\n")
RECURSIVE SplitFrom(_, _, _)
SplitFrom(s, i, cur) ==
  IF i > Len(s) THEN <<cur>>
  ELSE IF s[i] = NL THEN <<cur>> \o SplitFrom(s, i + 1, <<>>)
  ELSE SplitFrom(s, i + 1, Append(cur, s[i]))

Split(s) == SplitFrom(s, 1, <<>>)

\* the text whose lines are ls, "\n" between them
RECURSIVE JoinNL(_)
JoinNL(ls) ==
  IF ls = <<>> THEN <<>>
  ELSE IF Len(ls) = 1 THEN ls[1]
  ELSE ls[1] \o <<NL>> \o JoinNL(Tail(ls))

\* ------------------------------------------------------------------------
\* The hunk-header pattern /@@ -(\d+),\d+ \+(\d+),\d+ @@/
\* ------------------------------------------------------------------------
\* length of the run of digits of s that starts at position i
RECURSIVE DigitRun(_, _)
DigitRun(s, i) ==
  IF i <= Len(s) /\ IsDigit(s[i]) THEN 1 + DigitRun(s, i + 1) ELSE 0

NoMatch == [ok |-> FALSE, g1 |-> <<>>, g2 |-> <<>>]

\* the pattern matched with its first character at position i. Every \d+ is
\* followed by a literal that is no digit, so the greedy run is the only match.
HunkMatchAt(s, i) ==
  LET p1 == i + 4
      n1 == DigitRun(s, p1)
      p2 == p1 + n1
      n2 == DigitRun(s, p2 + 1)
      p3 == p2 + 1 + n2
      p4 == p3 + 2
      n3 == DigitRun(s, p4)
      p5 == p4 + n3
      n4 == DigitRun(s, p5 + 1)
      p6 == p5 + 1 + n4
  IN  IF /\ LitAt(s, i, <<"@", "@", " ", "-">>)
         /\ n1 >= 1
         /\ LitAt(s, p2, <<",">>)
         /\ n2 >= 1
         /\ LitAt(s, p3, <<" ", "+">>)
         /\ n3 >= 1
         /\ LitAt(s, p5, <<",">>)
         /\ n4 >= 1
         /\ LitAt(s, p6, <<" ", "@", "@">>)
      THEN [ok |-> TRUE, g1 |-> SubSeq(s, p1, p2 - 1), g2 |-> SubSeq(s, p4, p5 - 1)]
      ELSE NoMatch

\* RegExp.prototype.exec: the leftmost match, or null
HunkExec(s) ==
  LET hits == {i \in 1..Len(s) : HunkMatchAt(s, i).ok}
  IN  IF hits = {} THEN NoMatch
      ELSE HunkMatchAt(s, CHOOSE i \in hits : \A j \in hits : i <= j)

\* ------------------------------------------------------------------------
\* Diff texts
\* ------------------------------------------------------------------------
\* the header line "@@ -a,m +b,n @@"
Hdr(a, m, b, n) ==
  <<"@", "@", " ", "-">> \o NumToString(a) \o <<",">> \o NumToString(m)
    \o <<" ", "+">> \o NumToString(b) \o <<",">> \o NumToString(n)
    \o <<" ", "@", "@">>

\* (a, m, b, n) of the well-formed headers of the diffs
HdrParams == {<<5, 3, 5, 3>>, <<12, 2, 9, 4>>}

HdrLines == {Hdr(h[1], h[2], h[3], h[4]) : h \in HdrParams}

\* "@@ -1 +1 @@": a header git writes for a one-line hunk; the pattern rejects it
ShortHdr == <<"@", "@", " ", "-", "1", " ", "+", "1", " ", "@", "@">>

AddedLn   == <<"+", "a">>
RemovedLn == <<"-", "b">>
ContextLn == <<" ", "c">>
EmptyLn   == <<>>
\* "\ No newline at end of file", abbreviated
NoNewlineLn == <<"\\", " ", "N">>

DiffLineSet ==
  HdrLines \cup {ShortHdr, AddedLn, RemovedLn, ContextLn, EmptyLn, NoNewlineLn}

\* a complete hunk, as the API returns it: the text ends with a newline
TrailingNewlineDiff ==
  JoinNL(<<Hdr(5, 3, 5, 3), ContextLn, ContextLn, ContextLn>>) \o <<NL>>

\* a complete hunk that replaces the last line of a file without a final
\* newline
NoNewlineDiff ==
  JoinNL(<<Hdr(5, 3, 5, 3), ContextLn, ContextLn, RemovedLn, NoNewlineLn, AddedLn>>)

DiffScenarios == {TrailingNewlineDiff, NoNewlineDiff}

DiffTexts ==
  {JoinNL(ls) : ls \in SeqsUpTo(DiffLineSet, MaxDiffLines)} \cup DiffScenarios

FileLabel == <<"F", "i", "l", "e", ":", " ", "f">>

\* ------------------------------------------------------------------------
\* getReviewSuggestions: the callback of changes.map, one file's diff
\* ------------------------------------------------------------------------
DiffIdle ==
  /\ dpc = "idle" /\ lines = <<>> /\ dIdx = 0
  /\ oldLine = 0 /\ newLine = 0 /\ fileContent = <<>>

AdfIdle ==
  /\ apc = "idle" /\ variant = "mergeMR" /\ docLines = <<>> /\ aIdx = 0
  /\ content = <<>> /\ currentList = <<>> /\ inCodeBlock = FALSE
  /\ codeText = <<>> /\ codeLang = <<>>

MergeIdle ==
  /\ mpc = "idle" /\ jiraTickets = <<>> /\ tIdx = 0 /\ calls = <<>>

PostIdle ==
  /\ ppc = "idle" /\ script = "postMR" /\ changes = {} /\ raw = <<>>
  /\ diffRefs = FALSE /\ suggestions = <<>> /\ sIdx = 0 /\ posted = <<>>

\* the new_path values an MR's diffs may carry
ChangedFiles == {"a.js", "b.js"}

InitDiff ==
  /\ AdfIdle /\ MergeIdle /\ PostIdle
  /\ dpc = "scan"
  /\ \E text \in DiffTexts : lines = Split(text)
  /\ dIdx = 0
  /\ oldLine = 0
  /\ newLine = 0
  /\ fileContent = <<FileLabel>>

CurLine == lines[dIdx + 1]

IsHeaderLine(line)  == StartsWith(line, <<"@", "@">>)
IsAddedLine(line)   == ~IsHeaderLine(line) /\ StartsWith(line, <<"+">>)
IsRemovedLine(line) == ~IsHeaderLine(line) /\ ~IsAddedLine(line) /\ StartsWith(line, <<"-">>)
IsContextLine(line) == ~IsHeaderLine(line) /\ ~IsAddedLine(line) /\ ~IsRemovedLine(line)

HeaderOld_WrongGroup(match) == ParseInt(match.g2) - 1
HeaderNew_NoRebase(match) == ParseInt(match.g2)

\* oldLine = parseInt(match[1]) - 1
HeaderOld(match) == ParseInt(match.g1) - 1
\* newLine = parseInt(match[2]) - 1
HeaderNew(match) == ParseInt(match.g2) - 1

\* `+${newLine} ${line.substring(1)}` and its two siblings
Annotated(sign, n, line) == <<sign>> \o NumToString(n) \o <<" ">> \o Substring(line, 1)

DiffHeader_Dropped ==
  /\ dpc = "scan" /\ dIdx < Len(lines)
  /\ IsHeaderLine(CurLine)
  /\ LET match == HunkExec(CurLine)
     IN  /\ oldLine' = IF match.ok THEN HeaderOld(match) ELSE oldLine
         /\ newLine' = IF match.ok THEN HeaderNew(match) ELSE newLine
  /\ dIdx' = dIdx + 1
  /\ UNCHANGED <<dpc, lines, fileContent, nonDiffVars>>

DiffHeader_ResetOnMismatch ==
  /\ dpc = "scan" /\ dIdx < Len(lines)
  /\ IsHeaderLine(CurLine)
  /\ LET match == HunkExec(CurLine)
     IN  /\ oldLine' = IF match.ok THEN HeaderOld(match) ELSE 0
         /\ newLine' = IF match.ok THEN HeaderNew(match) ELSE 0
  /\ fileContent' = Append(fileContent, CurLine)
  /\ dIdx' = dIdx + 1
  /\ UNCHANGED <<dpc, lines, nonDiffVars>>

DiffHeader ==
  /\ dpc = "scan" /\ dIdx < Len(lines)
  /\ IsHeaderLine(CurLine)
  /\ LET match == HunkExec(CurLine)
     IN  /\ oldLine' = IF match.ok THEN HeaderOld(match) ELSE oldLine
         /\ newLine' = IF match.ok THEN HeaderNew(match) ELSE newLine
  /\ fileContent' = Append(fileContent, CurLine)
  /\ dIdx' = dIdx + 1
  /\ UNCHANGED <<dpc, lines, nonDiffVars>>

DiffAdded ==
  /\ dpc = "scan" /\ dIdx < Len(lines)
  /\ IsAddedLine(CurLine)
  /\ newLine' = newLine + 1
  /\ fileContent' = Append(fileContent, Annotated("+", newLine', CurLine))
  /\ dIdx' = dIdx + 1
  /\ UNCHANGED <<dpc, lines, oldLine, nonDiffVars>>

DiffRemoved_BothCounters ==
  /\ dpc = "scan" /\ dIdx < Len(lines)
  /\ IsRemovedLine(CurLine)
  /\ oldLine' = oldLine + 1
  /\ newLine' = newLine + 1
  /\ fileContent' = Append(fileContent, Annotated("-", oldLine', CurLine))
  /\ dIdx' = dIdx + 1
  /\ UNCHANGED <<dpc, lines, nonDiffVars>>

DiffRemoved ==
  /\ dpc = "scan" /\ dIdx < Len(lines)
  /\ IsRemovedLine(CurLine)
  /\ oldLine' = oldLine + 1
  /\ fileContent' = Append(fileContent, Annotated("-", oldLine', CurLine))
  /\ dIdx' = dIdx + 1
  /\ UNCHANGED <<dpc, lines, newLine, nonDiffVars>>

DiffContext ==
  /\ dpc = "scan" /\ dIdx < Len(lines)
  /\ IsContextLine(CurLine)
  /\ oldLine' = oldLine + 1
  /\ newLine' = newLine + 1
  /\ fileContent' = Append(fileContent, Annotated(" ", newLine', CurLine))
  /\ dIdx' = dIdx + 1
  /\ UNCHANGED <<dpc, lines, nonDiffVars>>

\* return content
DiffReturn ==
  /\ dpc = "scan" /\ dIdx = Len(lines)
  /\ dpc' = "done"
  /\ UNCHANGED <<lines, dIdx, oldLine, newLine, fileContent, nonDiffVars>>

NextDiff == DiffHeader \/ DiffAdded \/ DiffRemoved \/ DiffContext \/ DiffReturn

SpecDiff == InitDiff /\ [][NextDiff]_vars

\* ------------------------------------------------------------------------
\* String operations of the document compilers
\* ------------------------------------------------------------------------
IsSpace(c) == c \in {" ", "\t"}

RECURSIVE TrimStart(_)
TrimStart(s) == IF s # <<>> /\ IsSpace(s[1]) THEN TrimStart(Tail(s)) ELSE s

RECURSIVE TrimEnd(_)
TrimEnd(s) ==
  IF s # <<>> /\ IsSpace(s[Len(s)]) THEN TrimEnd(SubSeq(s, 1, Len(s) - 1)) ELSE s

\* String.prototype.trim
Trim(s) == TrimEnd(TrimStart(s))

\* the one character U+2022, the bullet-point character
Bullet    == "U+2022"
\* the one character U+0060, the backtick
Backtick  == "U+0060"
Backticks == <<Backtick, Backtick, Backtick>>
Stars     == <<"*", "*">>
TextLang  == <<"t", "e", "x", "t">>

\* the replacement without the g flag: the first "**" only
RemoveStars_First(s) ==
  LET hits == {i \in 1..Len(s) : LitAt(s, i, Stars)}
  IN  IF hits = {} THEN s
      ELSE LET i == CHOOSE x \in hits : \A y \in hits : x <= y
           IN  SubSeq(s, 1, i - 1) \o SubSeq(s, i + 2, Len(s))

\* s.replace(/\*\*/g, ""): every non-overlapping "**", left to right
RECURSIVE RemoveStars(_)
RemoveStars(s) ==
  IF Len(s) < 2 THEN s
  ELSE IF SubSeq(s, 1, 2) = Stars THEN RemoveStars(SubSeq(s, 3, Len(s)))
  ELSE <<s[1]>> \o RemoveStars(Tail(s))

\* /^\*\*(.+)\*\*$/.test(s)
IsBoldLine(s) ==
  /\ Len(s) >= 5
  /\ SubSeq(s, 1, 2) = Stars
  /\ SubSeq(s, Len(s) - 1, Len(s)) = Stars

\* s.replace(/^###\s*/, "") for an s that starts with "###"
StripH3(s) == TrimStart(Substring(s, 3))

\* s.replace(pat, "") for a string pattern: its first occurrence only
ReplaceFirst(s, pat) ==
  LET hits == {i \in 1..Len(s) : LitAt(s, i, pat)}
  IN  IF hits = {} THEN s
      ELSE LET i == CHOOSE x \in hits : \A y \in hits : x <= y
           IN  SubSeq(s, 1, i - 1) \o SubSeq(s, i + Len(pat), Len(s))

\* s.replace(/^(\*|-)\s+/, "")
StripMarker(s) ==
  IF Len(s) >= 2 /\ s[1] \in {"*", "-"} /\ IsSpace(s[2])
  THEN TrimStart(Substring(s, 1))
  ELSE s

\* ------------------------------------------------------------------------
\* Document nodes
\* ------------------------------------------------------------------------
\* { type: "heading", attrs: { level }, content: [{ type: "text", text }] }
Heading(level, text) ==
  [type |-> "heading", level |-> level, text |-> text, strong |-> FALSE,
   language |-> <<>>, items |-> <<>>]

\* { type: "paragraph", content: [{ type: "text", text, marks }] }
Paragraph(text, strong) ==
  [type |-> "paragraph", level |-> 0, text |-> text, strong |-> strong,
   language |-> <<>>, items |-> <<>>]

\* { type: "codeBlock", attrs: { language }, content: [{ type: "text", text }] }
CodeBlock(language, text) ==
  [type |-> "codeBlock", level |-> 0, text |-> text, strong |-> FALSE,
   language |-> language, items |-> <<>>]

\* { type: "bulletList", content: items }
BulletList(items) ==
  [type |-> "bulletList", level |-> 0, text |-> <<>>, strong |-> FALSE,
   language |-> <<>>, items |-> items]

\* { type: "listItem", content: [{ type: "paragraph", content: [{ type: "text", text }] }] }
ListItem(text) == [type |-> "listItem", text |-> text]

\* ------------------------------------------------------------------------
\* Comment texts
\* ------------------------------------------------------------------------
FenceJsLn   == <<Backtick, Backtick, Backtick, "j", "s">>
FenceLn     == Backticks
DotBulletLn == <<Bullet, " ", "a">>
StarItemLn  == <<"*", " ", "b">>
DashItemLn  == <<" ", "-", " ", "c">>
H3Ln        == <<"#", "#", "#", " ", "T">>
H2Ln        == <<"#", "#", " ", "T">>
H1Ln        == <<"#", " ", "T">>
BoldLn      == <<"*", "*", "D", "o", "n", "e", "*", "*">>
BlankLn     == <<>>
PlainLn     == <<"x">>

DocLineSet ==
  {FenceJsLn, FenceLn, DotBulletLn, StarItemLn, DashItemLn, H3Ln, H2Ln, H1Ln,
   BoldLn, BlankLn, PlainLn}

ConstLn     == <<"c", "o", "n", "s", "t", " ", "x", " ", "=", " ", "1", ";">>
TitleLn     == <<"#", "#", "#", " ", "T", "i", "t", "l", "e">>
BoldLineLn  == <<"*", "*", "B", "o", "l", "d", " ", "l", "i", "n", "e", "*", "*">>
PlainTextLn == <<"P", "l", "a", "i", "n", " ", "t", "e", "x", "t">>
TopLn       == <<"*", " ", "T", "o", "p">>
NestedLn    == <<"*", "*", " ", "N", "e", "s", "t", "e", "d">>
BackLn      == <<"*", " ", "B", "a", "c", "k">>
BoldInnerLn == <<"*", "*", "a", "*", "*", "b", "*", "*">>
EmptyBoldLn == <<"*", "*", "*", "*">>

BoldStarLn   == <<"*", "*", "*", "a", "*", "*">>
BoldSpacedLn == <<"*", "*", " ", "b", " ", "*", "*">>

\* the fenced block: a js fence, "const x = 1;", a fence
FenceScenario == <<FenceJsLn, ConstLn, FenceLn>>
\* "### Title\n**Bold line**\n\nPlain text\n"
TitleText ==
  TitleLn \o <<NL>> \o BoldLineLn \o <<NL>> \o <<NL>> \o PlainTextLn \o <<NL>>
\* "* Top\n** Nested\n* Back"
NestedScenario == <<TopLn, NestedLn, BackLn>>

\* a bullet, a fenced block of one line, a bullet
ListFenceScenario == <<DotBulletLn, FenceLn, PlainLn, FenceLn, DotBulletLn>>

ScenarioTexts ==
  {JoinNL(FenceScenario), TitleText, JoinNL(NestedScenario), BoldInnerLn,
   EmptyBoldLn, BoldStarLn, BoldSpacedLn, JoinNL(ListFenceScenario)}

DocTexts == {JoinNL(ls) : ls \in SeqsUpTo(DocLineSet, MaxDocLines)} \cup ScenarioTexts

\* ------------------------------------------------------------------------
\* buildJiraADFFromText
\* ------------------------------------------------------------------------
InitADF ==
  /\ DiffIdle /\ MergeIdle /\ PostIdle
  /\ apc = "scan"
  /\ variant \in {"mergeMR", "postMergeJira"}
  /\ \E text \in DocTexts : docLines = Split(text)
  /\ aIdx = 0
  /\ content = <<>>
  /\ currentList = <<>>
  /\ inCodeBlock = FALSE
  /\ codeText = <<>>
  /\ codeLang = TextLang

DocLine == docLines[aIdx + 1]

Scanning(v) == apc = "scan" /\ variant = v /\ aIdx < Len(docLines)

\* ---- mergeMR.js ----
IsFence(trimmed) == StartsWith(trimmed, Backticks)

\* trimmed.slice(3) || "text"
FenceLang(trimmed) ==
  IF Substring(trimmed, 3) = <<>> THEN TextLang ELSE Substring(trimmed, 3)

CodeAppend_NoNewline(text, line) == text \o line

\* codeText += line + "\n"
CodeAppend(text, line) == text \o line \o <<NL>>

IsDotBullet(trimmed) == StartsWith(trimmed, <<Bullet>>)

IsH3(trimmed) == StartsWith(trimmed, <<"#", "#", "#">>)

\* if (currentList) { content.push(currentList); currentList = null; }
Flushed == IF currentList # <<>> THEN Append(content, currentList[1]) ELSE content

MM_FenceOpen ==
  /\ Scanning("mergeMR")
  /\ IsFence(Trim(DocLine))
  /\ ~inCodeBlock
  /\ inCodeBlock' = TRUE
  /\ codeText' = <<>>
  /\ codeLang' = FenceLang(Trim(DocLine))
  /\ aIdx' = aIdx + 1
  /\ UNCHANGED <<apc, variant, docLines, content, currentList, nonAdfVars>>

MM_FenceClose ==
  /\ Scanning("mergeMR")
  /\ IsFence(Trim(DocLine))
  /\ inCodeBlock
  /\ inCodeBlock' = FALSE
  /\ content' = Append(content, CodeBlock(codeLang, codeText))
  /\ aIdx' = aIdx + 1
  /\ UNCHANGED <<apc, variant, docLines, currentList, codeText, codeLang, nonAdfVars>>

MM_CodeLine ==
  /\ Scanning("mergeMR")
  /\ ~IsFence(Trim(DocLine))
  /\ inCodeBlock
  /\ codeText' = CodeAppend(codeText, DocLine)
  /\ aIdx' = aIdx + 1
  /\ UNCHANGED <<apc, variant, docLines, content, currentList, inCodeBlock, codeLang, nonAdfVars>>

MM_Bullet ==
  /\ Scanning("mergeMR")
  /\ ~IsFence(Trim(DocLine)) /\ ~inCodeBlock
  /\ IsDotBullet(Trim(DocLine))
  /\ LET list == IF currentList = <<>> THEN BulletList(<<>>) ELSE currentList[1]
         item == ListItem(Trim(Substring(Trim(DocLine), 1)))
     IN  currentList' = <<[list EXCEPT !.items = Append(@, item)]>>
  /\ aIdx' = aIdx + 1
  /\ UNCHANGED <<apc, variant, docLines, content, inCodeBlock, codeText, codeLang, nonAdfVars>>

MM_Heading ==
  /\ Scanning("mergeMR")
  /\ ~IsFence(Trim(DocLine)) /\ ~inCodeBlock
  /\ ~IsDotBullet(Trim(DocLine))
  /\ IsH3(Trim(DocLine))
  /\ content' = Append(Flushed, Heading(3, StripH3(Trim(DocLine))))
  /\ currentList' = <<>>
  /\ aIdx' = aIdx + 1
  /\ UNCHANGED <<apc, variant, docLines, inCodeBlock, codeText, codeLang, nonAdfVars>>

MM_Text ==
  /\ Scanning("mergeMR")
  /\ ~IsFence(Trim(DocLine)) /\ ~inCodeBlock
  /\ ~IsDotBullet(Trim(DocLine))
  /\ ~IsH3(Trim(DocLine))
  /\ Trim(DocLine) # <<>>
  /\ content' = Append(Flushed,
                       Paragraph(RemoveStars(Trim(DocLine)), IsBoldLine(Trim(DocLine))))
  /\ currentList' = <<>>
  /\ aIdx' = aIdx + 1
  /\ UNCHANGED <<apc, variant, docLines, inCodeBlock, codeText, codeLang, nonAdfVars>>

MM_Blank_Skipped ==
  /\ Scanning("mergeMR")
  /\ ~IsFence(Trim(DocLine)) /\ ~inCodeBlock
  /\ ~IsDotBullet(Trim(DocLine))
  /\ ~IsH3(Trim(DocLine))
  /\ Trim(DocLine) = <<>>
  /\ content' = Flushed
  /\ currentList' = <<>>
  /\ aIdx' = aIdx + 1
  /\ UNCHANGED <<apc, variant, docLines, inCodeBlock, codeText, codeLang, nonAdfVars>>

MM_Blank ==
  /\ Scanning("mergeMR")
  /\ ~IsFence(Trim(DocLine)) /\ ~inCodeBlock
  /\ ~IsDotBullet(Trim(DocLine))
  /\ ~IsH3(Trim(DocLine))
  /\ Trim(DocLine) = <<>>
  /\ content' = Append(Flushed, Paragraph(<<>>, FALSE))
  /\ currentList' = <<>>
  /\ aIdx' = aIdx + 1
  /\ UNCHANGED <<apc, variant, docLines, inCodeBlock, codeText, codeLang, nonAdfVars>>

MM_Return_NoFlush ==
  /\ apc = "scan" /\ variant = "mergeMR" /\ aIdx = Len(docLines)
  /\ apc' = "done"
  /\ UNCHANGED <<variant, docLines, aIdx, content, currentList, inCodeBlock, codeText, codeLang, nonAdfVars>>

\* if (currentList) content.push(currentList); return { type: "doc", version: 1, content }
MM_Return ==
  /\ apc = "scan" /\ variant = "mergeMR" /\ aIdx = Len(docLines)
  /\ content' = IF currentList # <<>> THEN Append(content, currentList[1]) ELSE content
  /\ apc' = "done"
  /\ UNCHANGED <<variant, docLines, aIdx, currentList, inCodeBlock, codeText, codeLang, nonAdfVars>>

\* ---- postMergeJira.js ----
IsH2(line) == StartsWith(line, <<"#", "#", " ">>)
IsH1(line) == StartsWith(line, <<"#", " ">>)

IsStarBullet_AnyStar(line) ==
  StartsWith(Trim(line), <<"*">>) \/ StartsWith(Trim(line), <<"-", " ">>)

\* line.trim().startsWith("* ") || line.trim().startsWith("- ")
IsStarBullet(line) ==
  StartsWith(Trim(line), <<"*", " ">>) \/ StartsWith(Trim(line), <<"-", " ">>)

NeedsNewList_NoEmptyCheck(c) == Len(c) > 0 /\ c[Len(c)].type # "bulletList"

\* content.length === 0 || content[content.length - 1].type !== "bulletList"
NeedsNewList(c) == Len(c) = 0 \/ c[Len(c)].type # "bulletList"

PMJ_Blank ==
  /\ Scanning("postMergeJira")
  /\ Trim(DocLine) = <<>>
  /\ aIdx' = aIdx + 1
  /\ UNCHANGED <<apc, variant, docLines, content, currentList, inCodeBlock, codeText, codeLang, nonAdfVars>>

PMJ_H2 ==
  /\ Scanning("postMergeJira")
  /\ Trim(DocLine) # <<>>
  /\ IsH2(DocLine)
  /\ content' = Append(content, Heading(2, ReplaceFirst(DocLine, <<"#", "#", " ">>)))
  /\ aIdx' = aIdx + 1
  /\ UNCHANGED <<apc, variant, docLines, currentList, inCodeBlock, codeText, codeLang, nonAdfVars>>

PMJ_H1 ==
  /\ Scanning("postMergeJira")
  /\ Trim(DocLine) # <<>>
  /\ ~IsH2(DocLine)
  /\ IsH1(DocLine)
  /\ content' = Append(content, Heading(1, ReplaceFirst(DocLine, <<"#", " ">>)))
  /\ aIdx' = aIdx + 1
  /\ UNCHANGED <<apc, variant, docLines, currentList, inCodeBlock, codeText, codeLang, nonAdfVars>>

\* content[content.length - 1] is undefined when content is empty: reading its
\* .content raises a TypeError, which leaves the function
PMJ_Bullet ==
  /\ Scanning("postMergeJira")
  /\ Trim(DocLine) # <<>>
  /\ ~IsH2(DocLine) /\ ~IsH1(DocLine)
  /\ IsStarBullet(DocLine)
  /\ LET opened == IF NeedsNewList(content) THEN Append(content, BulletList(<<>>))
                   ELSE content
         item == ListItem(StripMarker(DocLine))
     IN  IF Len(opened) = 0
         THEN /\ apc' = "raised"
              /\ UNCHANGED <<content, aIdx>>
         ELSE /\ content' = [opened EXCEPT ![Len(opened)].items = Append(@, item)]
              /\ aIdx' = aIdx + 1
              /\ UNCHANGED apc
  /\ UNCHANGED <<variant, docLines, currentList, inCodeBlock, codeText, codeLang, nonAdfVars>>

PMJ_Paragraph ==
  /\ Scanning("postMergeJira")
  /\ Trim(DocLine) # <<>>
  /\ ~IsH2(DocLine) /\ ~IsH1(DocLine)
  /\ ~IsStarBullet(DocLine)
  /\ content' = Append(content, Paragraph(DocLine, FALSE))
  /\ aIdx' = aIdx + 1
  /\ UNCHANGED <<apc, variant, docLines, currentList, inCodeBlock, codeText, codeLang, nonAdfVars>>

PMJ_Return ==
  /\ apc = "scan" /\ variant = "postMergeJira" /\ aIdx = Len(docLines)
  /\ apc' = "done"
  /\ UNCHANGED <<variant, docLines, aIdx, content, currentList, inCodeBlock, codeText, codeLang, nonAdfVars>>

NextADF ==
  \/ MM_FenceOpen \/ MM_FenceClose \/ MM_CodeLine \/ MM_Bullet \/ MM_Heading
  \/ MM_Text \/ MM_Blank \/ MM_Return
  \/ PMJ_Blank \/ PMJ_H2 \/ PMJ_H1 \/ PMJ_Bullet \/ PMJ_Paragraph \/ PMJ_Return

SpecADF == InitADF /\ [][NextADF]_vars

\* ------------------------------------------------------------------------
\* mergeMR.js: main
\* ------------------------------------------------------------------------
Tickets == {"AB-1", "AB-2", "CD-7"}

\* Array.from(new Set(xs)): the first occurrence of each element, in order
RECURSIVE Dedupe(_)
Dedupe(xs) ==
  IF xs = <<>> THEN <<>>
  ELSE LET front == Dedupe(SubSeq(xs, 1, Len(xs) - 1))
           last  == xs[Len(xs)]
       IN  IF \E i \in 1..Len(front) : front[i] = last THEN front
           ELSE Append(front, last)

\* a request sent to GitLab or Jira, and whether it succeeded
Call(op, ticket, ok) == [op |-> op, ticket |-> ticket, ok |-> ok]

\* state after the imports: GITLAB_BRANCH_NAME.match(/[A-Z]+-\d+/g) || [] is
\* any sequence of ticket ids
InitMerge ==
  /\ DiffIdle /\ AdfIdle /\ PostIdle
  /\ mpc = "start"
  /\ \E m \in SeqsUpTo(Tickets, MaxMatches) : jiraTickets = Dedupe(m)
  /\ tIdx = 0
  /\ calls = <<>>

Ticket == jiraTickets[tIdx + 1]

\* if (!jiraTickets.length) throw new Error("No Jira ticket found in branch name")
M_Tickets ==
  /\ mpc = "start"
  /\ mpc' = IF Len(jiraTickets) = 0 THEN "caught" ELSE "getMR"
  /\ UNCHANGED <<jiraTickets, tIdx, calls, nonMergeVars>>

\* const mr = await getMergeRequest(...); if (!mr) throw ...
M_GetMR ==
  /\ mpc = "getMR"
  /\ \E found \in BOOLEAN : mpc' = IF found THEN "getChanges" ELSE "caught"
  /\ UNCHANGED <<jiraTickets, tIdx, calls, nonMergeVars>>

\* const changes = await getMRChanges(mr)
M_GetChanges ==
  /\ mpc = "getChanges"
  /\ \E ok \in BOOLEAN : mpc' = IF ok THEN "loop" ELSE "caught"
  /\ UNCHANGED <<jiraTickets, tIdx, calls, nonMergeVars>>

\* const data = await getJiraDetails(ticket): null when the request fails
M_GetJiraDetails ==
  /\ mpc = "loop" /\ tIdx < Len(jiraTickets)
  /\ \E data \in BOOLEAN :
       IF data THEN mpc' = "gemini" /\ tIdx' = tIdx
       ELSE mpc' = "loop" /\ tIdx' = tIdx + 1
  /\ UNCHANGED <<jiraTickets, calls, nonMergeVars>>

\* const qaText = await getQASuggestions(jiraText, changes)
M_QASuggestions ==
  /\ mpc = "gemini"
  /\ \E ok \in BOOLEAN : mpc' = IF ok THEN "account" ELSE "caught"
  /\ UNCHANGED <<jiraTickets, tIdx, calls, nonMergeVars>>

\* updateJira: const qaAccountId = await getJiraUserAccountId(qaEmail)
M_GetAccountId ==
  /\ mpc = "account"
  /\ \E ok \in BOOLEAN : mpc' = IF ok THEN "comment" ELSE "caught"
  /\ UNCHANGED <<jiraTickets, tIdx, calls, nonMergeVars>>

\* updateJira: await jiraApi.post(`/rest/api/3/issue/${ticketId}/comment`, ...)
M_PostComment ==
  /\ mpc = "comment"
  /\ \E ok \in BOOLEAN :
       /\ calls' = Append(calls, Call("comment", Ticket, ok))
       /\ mpc' = IF ok THEN "assign" ELSE "caught"
  /\ UNCHANGED <<jiraTickets, tIdx, nonMergeVars>>

M_Assign_IgnoreFailure ==
  /\ mpc = "assign"
  /\ \E ok \in BOOLEAN :
       /\ calls' = Append(calls, Call("assign", Ticket, ok))
       /\ mpc' = "loop"
       /\ tIdx' = tIdx + 1
  /\ UNCHANGED <<jiraTickets, nonMergeVars>>

\* updateJira: await jiraApi.put(`/rest/api/3/issue/${ticketId}/assignee`, ...)
M_Assign ==
  /\ mpc = "assign"
  /\ \E ok \in BOOLEAN :
       /\ calls' = Append(calls, Call("assign", Ticket, ok))
       /\ mpc' = IF ok THEN "loop" ELSE "caught"
       /\ tIdx' = IF ok THEN tIdx + 1 ELSE tIdx
  /\ UNCHANGED <<jiraTickets, nonMergeVars>>

\* await mergeMR(mr.iid): the PUT .../merge; a failure is logged and rethrown
M_Merge ==
  /\ mpc = "loop" /\ tIdx = Len(jiraTickets)
  /\ \E ok \in BOOLEAN :
       /\ calls' = Append(calls, Call("merge", "", ok))
       /\ mpc' = IF ok THEN "done" ELSE "caught"
  /\ UNCHANGED <<jiraTickets, tIdx, nonMergeVars>>

NextMerge ==
  \/ M_Tickets \/ M_GetMR \/ M_GetChanges \/ M_GetJiraDetails \/ M_QASuggestions
  \/ M_GetAccountId \/ M_PostComment \/ M_Assign \/ M_Merge

SpecMerge == InitMerge /\ [][NextMerge]_vars

\* ------------------------------------------------------------------------
\* The postMR scripts: run, getReviewSuggestions' filter, addInlineSuggestion
\* ------------------------------------------------------------------------
Files == {"a.js", "b.js", "c.js"}

SamePath_Always(newPath, file) == TRUE

\* c.new_path === s.file
SamePath(newPath, file) == newPath = file

\* changes.some(c => c.new_path === s.file), changes.find(c => c.new_path === suggestion.file)
InChanges(file) == \E c \in changes : SamePath(c, file)

\* suggestions.filter(s => changes.some(c => c.new_path === s.file))
Filtered(ss) == SelectSeq(ss, InChanges)

\* script "postMR": src/postMergeJira.js lines 190-368; script "postMRJira":
\* src/unnamed/part_000 lines 100-313. changes is the MR's diff list, raw what
\* JSON.parse makes of the model's answer, diffRefs whether the MR has diff_refs.
InitPost ==
  /\ DiffIdle /\ AdfIdle /\ MergeIdle
  /\ ppc = "getMR"
  /\ script \in {"postMR", "postMRJira"}
  /\ changes \in SUBSET ChangedFiles
  /\ raw \in SeqsUpTo(Files, MaxSuggestions)
  /\ diffRefs \in BOOLEAN
  /\ suggestions = <<>>
  /\ sIdx = 0
  /\ posted = <<>>

\* const mr = await getMergeRequestByBranch(...); if (!mr) return;
P_GetMR ==
  /\ ppc = "getMR"
  /\ \E r \in {"mr", "none", "throws"} :
       ppc' = IF r = "mr" THEN "getChanges" ELSE IF r = "none" THEN "done" ELSE "fatal"
  /\ UNCHANGED <<script, changes, raw, diffRefs, suggestions, sIdx, posted, nonPostVars>>

\* the GET .../diffs
P_GetChanges ==
  /\ ppc = "getChanges"
  /\ \E ok \in BOOLEAN :
       ppc' = IF ~ok THEN "fatal"
              ELSE IF script = "postMRJira" THEN "describe" ELSE "review"
  /\ UNCHANGED <<script, changes, raw, diffRefs, suggestions, sIdx, posted, nonPostVars>>

\* postMRJira: the Jira details, summarizeDiffs and the PUT of the description
P_Describe ==
  /\ ppc = "describe"
  /\ \E ok \in BOOLEAN : ppc' = IF ok THEN "review" ELSE "fatal"
  /\ UNCHANGED <<script, changes, raw, diffRefs, suggestions, sIdx, posted, nonPostVars>>

\* getReviewSuggestions: the answer parses to raw and is filtered, or does
\* not parse (return []), or the model call fails: caught in postMR (return
\* []), thrown to run's catch in postMRJira
P_Review ==
  /\ ppc = "review"
  /\ \E r \in {"parsed", "unparsable", "modelError"} :
       /\ suggestions' = IF r = "parsed" THEN Filtered(raw) ELSE <<>>
       /\ ppc' = IF r = "modelError" /\ script = "postMRJira" THEN "fatal"
                 ELSE IF script = "postMR" THEN "filter" ELSE "add"
  /\ UNCHANGED <<script, changes, raw, diffRefs, sIdx, posted, nonPostVars>>

\* postMR's run: the second filter, and the return when nothing is left
P_Filter ==
  /\ ppc = "filter"
  /\ suggestions' = Filtered(suggestions)
  /\ ppc' = IF Len(suggestions') = 0 THEN "done" ELSE "add"
  /\ UNCHANGED <<script, changes, raw, diffRefs, sIdx, posted, nonPostVars>>

\* addInlineSuggestion / addInlineSuggestionAsAIAgent for the next suggestion:
\* the POST to .../discussions, whose failure is caught and logged
P_Add ==
  /\ ppc = "add" /\ sIdx < Len(suggestions)
  /\ LET s == suggestions[sIdx + 1]
     IN  posted' = IF diffRefs /\ InChanges(s) THEN Append(posted, s) ELSE posted
  /\ sIdx' = sIdx + 1
  /\ UNCHANGED <<ppc, script, changes, raw, diffRefs, suggestions, nonPostVars>>

P_Return ==
  /\ ppc = "add" /\ sIdx = Len(suggestions)
  /\ ppc' = "done"
  /\ UNCHANGED <<script, changes, raw, diffRefs, suggestions, sIdx, posted, nonPostVars>>

NextPost ==
  \/ P_GetMR \/ P_GetChanges \/ P_Describe \/ P_Review \/ P_Filter \/ P_Add \/ P_Return

SpecPost == InitPost /\ [][NextPost]_vars

\* ------------------------------------------------------------------------
\* All four programs
\* ------------------------------------------------------------------------
Init == InitDiff \/ InitADF \/ InitMerge \/ InitPost

Next == NextDiff \/ NextADF \/ NextMerge \/ NextPost

Spec == Init /\ [][Next]_vars

\* ------------------------------------------------------------------------
\* Properties of the diff annotator
\* ------------------------------------------------------------------------
\* the output line produced from input line k
OutLine(k) == fileContent[k + 1]

\* lines j < i < k, the lines between a header at j and a line at k
Between(j, k) == (j + 1)..(k - 1)

\* line k is the first line of its kind after the header at j, in j's hunk
FirstAddedAfter(j, k) ==
  /\ j < k /\ k <= dIdx
  /\ IsAddedLine(lines[k])
  /\ \A i \in Between(j, k) : ~IsHeaderLine(lines[i]) /\ ~IsAddedLine(lines[i])

FirstRemovedAfter(j, k) ==
  /\ j < k /\ k <= dIdx
  /\ IsRemovedLine(lines[k])
  /\ \A i \in Between(j, k) : ~IsHeaderLine(lines[i]) /\ ~IsRemovedLine(lines[i])

ContextBetween(j, k) == Cardinality({i \in Between(j, k) : IsContextLine(lines[i])})

Numbered(sign, n, line) == <<sign>> \o NumToString(n) \o <<" ">> \o SubSeq(line, 2, Len(line))

\* C1 as stated: after a well-formed header `@@ -a,m +b,n @@` the first Added
\* line of the hunk is emitted as +b and the first Removed line as -a.
C1_Original ==
  \A j \in 1..dIdx : \A h \in HdrParams :
    lines[j] = Hdr(h[1], h[2], h[3], h[4]) =>
      \A k \in 1..dIdx :
        /\ FirstAddedAfter(j, k) => OutLine(k) = Numbered("+", h[3], lines[k])
        /\ FirstRemovedAfter(j, k) => OutLine(k) = Numbered("-", h[1], lines[k])

\* C1 amended: after a well-formed header `@@ -a,m +b,n @@`, whatever preceded
\* it, the first Added line of the hunk is emitted with number b + c and the
\* first Removed line with number a + c, c being the number of context lines
\* between the header and that line (so +b and -a when no context line lies
\* between); every hunk is re-based from its own header.
C1_FirstChangedLine ==
  \A j \in 1..dIdx : \A h \in HdrParams :
    lines[j] = Hdr(h[1], h[2], h[3], h[4]) =>
      \A k \in 1..dIdx :
        /\ FirstAddedAfter(j, k) =>
             OutLine(k) = Numbered("+", h[3] + ContextBetween(j, k), lines[k])
        /\ FirstRemovedAfter(j, k) =>
             OutLine(k) = Numbered("-", h[1] + ContextBetween(j, k), lines[k])

\* a second hunk, after a first hunk whose context line advanced both
\* counters; its first Added line is emitted with the second header's number
C1_Witness ==
  /\ dpc = "done"
  /\ \E i, j, k \in 1..Len(lines) :
       /\ i < j /\ lines[i] = Hdr(5, 3, 5, 3) /\ lines[j] = Hdr(12, 2, 9, 4)
       /\ \E c \in Between(i, j) : IsContextLine(lines[c])
       /\ FirstAddedAfter(j, k)
       /\ OutLine(k) = <<"+", "9", " ", "a">>

\* C2: after `@@ -5,3 +5,3 @@` followed only by context lines, the k-th
\* context line is emitted as " <5+k-1> <content>", content being the line
\* without its prefix column.
C2_ContextNumbering ==
  ( /\ Len(lines) >= 1
    /\ lines[1] = Hdr(5, 3, 5, 3)
    /\ \A i \in 2..Len(lines) : IsContextLine(lines[i]) )
  => \A k \in 1..(dIdx - 1) : OutLine(k + 1) = Numbered(" ", 5 + k - 1, lines[k + 1])

C2_Witness ==
  /\ dpc = "done"
  /\ Len(lines) >= 4
  /\ lines[1] = Hdr(5, 3, 5, 3)
  /\ \A i \in 2..Len(lines) : IsContextLine(lines[i])
  /\ OutLine(4) = <<" ", "7", " ">> \o SubSeq(lines[4], 2, Len(lines[4]))

\* the sign column an input line is emitted with
SignOf(line) ==
  IF IsAddedLine(line) THEN "+" ELSE IF IsRemovedLine(line) THEN "-" ELSE " "

\* out is what input line `line` is emitted as: a header unchanged, any other
\* line as its sign, a number, a space and the line without its prefix column
ProducedFrom(out, line) ==
  IF IsHeaderLine(line) THEN out = line
  ELSE LET rest == SubSeq(line, 2, Len(line))
       IN  /\ Len(out) >= Len(rest) + 3
           /\ out[1] = SignOf(line)
           /\ \A p \in 2..(Len(out) - Len(rest) - 1) : IsDigit(out[p])
           /\ out[Len(out) - Len(rest)] = " "
           /\ SubSeq(out, Len(out) - Len(rest) + 1, Len(out)) = rest

\* C3: after its File label, the annotated text holds exactly one line per
\* input line consumed, the i-th produced from the i-th input line: none is
\* dropped, duplicated, added or reordered.
C3_OneLinePerLine ==
  /\ Len(fileContent) = 1 + dIdx
  /\ fileContent[1] = FileLabel
  /\ \A i \in 1..dIdx : ProducedFrom(OutLine(i), lines[i])
  /\ dpc = "done" => dIdx = Len(lines)

C3_Witness ==
  /\ dpc = "done"
  /\ Len(lines) = MaxDiffLines
  /\ \E i, j, k \in 1..Len(lines) :
       IsHeaderLine(lines[i]) /\ IsAddedLine(lines[j]) /\ IsContextLine(lines[k])

\* ------------------------------------------------------------------------
\* Properties of the document compilers
\* ------------------------------------------------------------------------
\* a line whose trimmed form starts with three backticks
LooksFence(line) ==
  LET t == Trim(line)
  IN  Len(t) >= 3 /\ t[1] = Backtick /\ t[2] = Backtick /\ t[3] = Backtick

FencesBefore(i) == Cardinality({j \in 1..(i - 1) : LooksFence(docLines[j])})

\* line i opens a code block; line j is the fence that closes it
FencePair(i, j) ==
  /\ i < j
  /\ LooksFence(docLines[i]) /\ FencesBefore(i) % 2 = 0
  /\ LooksFence(docLines[j])
  /\ \A k \in (i + 1)..(j - 1) : ~LooksFence(docLines[k])

\* line k lies inside a code block, closed or not
InsideCode(k) == ~LooksFence(docLines[k]) /\ FencesBefore(k) % 2 = 1

\* lines a..b, each followed by a newline
RECURSIVE Verbatim(_, _)
Verbatim(a, b) ==
  IF a > b THEN <<>> ELSE docLines[a] \o <<NL>> \o Verbatim(a + 1, b)

\* the text after the opening backticks, "text" when there is none
LangAfter(line) ==
  LET t == Trim(line)
  IN  IF Len(t) = 3 THEN <<"t", "e", "x", "t">> ELSE SubSeq(t, 4, Len(t))

IsCodeNode(nd) == nd.type = "codeBlock"
IsParagraphNode(nd) == nd.type = "paragraph"

CodeNodes(c) == SelectSeq(c, IsCodeNode)
ParaCount(c) == Len(SelectSeq(c, IsParagraphNode))

\* headings, paragraphs and list items of the nodes c
RECURSIVE TextNodeCount(_)
TextNodeCount(c) ==
  IF c = <<>> THEN 0
  ELSE TextNodeCount(Tail(c)) +
       ( IF c[1].type \in {"heading", "paragraph"} THEN 1
         ELSE IF c[1].type = "bulletList" THEN Len(c[1].items)
         ELSE 0 )

\* C4: in mergeMR.js the lines strictly between a fence-open line and the
\* next fence line are captured verbatim, each followed by a newline, into
\* exactly one codeBlock node whose language is the text after the opening
\* backticks ("text" when none); no such line produces a heading, a
\* paragraph or a list item. The fenced "const x = 1;" compiles to one
\* codeBlock with language "js" and text "const x = 1;\n".
C4_CodeBlockVerbatim ==
  variant = "mergeMR" /\ apc \in {"scan", "done"} =>
    /\ \A i, j \in 1..aIdx :
         FencePair(i, j) =>
           LET t == (FencesBefore(i) \div 2) + 1
           IN  /\ Len(CodeNodes(content)) >= t
               /\ CodeNodes(content)[t].language = LangAfter(docLines[i])
               /\ CodeNodes(content)[t].text = Verbatim(i + 1, j - 1)
    /\ Len(CodeNodes(content)) =
         Cardinality({p \in (1..aIdx) \X (1..aIdx) : FencePair(p[1], p[2])})
    /\ TextNodeCount(content) + (IF apc = "scan" THEN TextNodeCount(currentList) ELSE 0) =
         Cardinality({k \in 1..aIdx : ~LooksFence(docLines[k]) /\ ~InsideCode(k)})
    /\ (apc = "done" /\ docLines = FenceScenario) =>
         content = <<CodeBlock(<<"j", "s">>, ConstLn \o <<NL>>)>>

\* a closed block whose two inner lines look like a bullet and a heading
C4_Witness ==
  /\ apc = "done" /\ variant = "mergeMR"
  /\ Len(docLines) >= 3
  /\ FencePair(1, 3)
  /\ docLines[2] \in {DotBulletLn, H3Ln, BoldLn, BlankLn, DashItemLn}
  /\ content = <<CodeBlock(LangAfter(docLines[1]), docLines[2] \o <<NL>>)>>

\* a trimmed line wrapped entirely in ** ... **
WholeBold(t) ==
  /\ Len(t) >= 5
  /\ t[1] = "*" /\ t[2] = "*" /\ t[Len(t) - 1] = "*" /\ t[Len(t)] = "*"

\* X of a line **X**
MarkedText(line) == SubSeq(line, 3, Len(line) - 2)

HasStars(s) == \E p \in 1..(Len(s) - 1) : s[p] = "*" /\ s[p + 1] = "*"

\* C5: in mergeMR.js a text that is one whole-line bold marker **X** compiles
\* to exactly one block node, a paragraph whose one text carries the strong
\* mark and whose value is X with the ** delimiters removed: X itself when
\* X holds no further **.
C5_WholeLineBold ==
  ( /\ variant = "mergeMR" /\ apc = "done"
    /\ Len(docLines) = 1
    /\ WholeBold(docLines[1]) )
  => /\ Len(content) = 1
     /\ content[1].type = "paragraph"
     /\ content[1].strong
     /\ ~HasStars(content[1].text)
     /\ ~HasStars(MarkedText(docLines[1])) => content[1].text = MarkedText(docLines[1])

C5_Witness ==
  /\ variant = "mergeMR" /\ apc = "done"
  /\ docLines = <<BoldLn>>
  /\ content = <<Paragraph(<<"D", "o", "n", "e">>, TRUE)>>

C7_TitleScenario ==
  (variant = "mergeMR" /\ apc = "done" /\ docLines = Split(TitleText)) =>
    content = << Heading(3, <<"T", "i", "t", "l", "e">>),
                 Paragraph(<<"B", "o", "l", "d", " ", "l", "i", "n", "e">>, TRUE),
                 Paragraph(<<>>, FALSE),
                 Paragraph(PlainTextLn, FALSE) >>

HasPrefix(s, p) == Len(s) >= Len(p) /\ \A i \in 1..Len(p) : s[i] = p[i]

\* a line that is no fence, heading, bullet, whole-line bold or blank line of
\* the compiler of script v
PlainLine(v, line) ==
  LET t == Trim(line)
  IN  /\ t # <<>>
      /\ ~LooksFence(line)
      /\ ~WholeBold(t)
      /\ v = "mergeMR" => ~HasPrefix(t, <<Bullet>>) /\ ~HasPrefix(t, <<"#", "#", "#">>)
      /\ v = "postMergeJira" =>
           /\ ~HasPrefix(line, <<"#", "#", " ">>) /\ ~HasPrefix(line, <<"#", " ">>)
           /\ ~HasPrefix(t, <<"*", " ">>) /\ ~HasPrefix(t, <<"-", " ">>)

NoStar(line) == \A p \in 1..Len(line) : line[p] # "*"

\* the step that consumes a plain line outside a code block adds exactly one
\* paragraph node, the last node of the document, and nothing else but the
\* list it closes
PlainLineStep ==
  ( /\ apc = "scan" /\ aIdx < Len(docLines)
    /\ ~inCodeBlock
    /\ PlainLine(variant, DocLine) )
  => /\ apc' = "scan" /\ aIdx' = aIdx + 1
     /\ ParaCount(content') = ParaCount(content) + 1
     /\ TextNodeCount(content') = TextNodeCount(content) + TextNodeCount(currentList) + 1
     /\ content'[Len(content')].type = "paragraph"
     /\ ~content'[Len(content')].strong
     /\ NoStar(DocLine) =>
          content'[Len(content')].text =
            (IF variant = "mergeMR" THEN Trim(DocLine) ELSE DocLine)

\* C10: both compilers consume every line of every input and return a
\* document without raising, and every line outside a code block that is no
\* fence, heading, bullet, whole-line bold or blank line produces exactly
\* one paragraph node.
C10_TotalAndFallThrough ==
  /\ [](apc # "raised")
  /\ [](apc = "scan" => ENABLED NextADF)
  /\ [](apc = "done" => aIdx = Len(docLines))
  /\ [][PlainLineStep]_vars

\* both compilers have returned a document for a text whose last line fell
\* through to the paragraph case after a bullet line
C10_Witness ==
  /\ apc = "done"
  /\ Len(docLines) = 2
  /\ docLines[1] \in {DotBulletLn, StarItemLn}
  /\ docLines[2] = PlainLn
  /\ Len(content) = 2
  /\ content[1].type = "bulletList"
  /\ content[2] = Paragraph(PlainLn, FALSE)

\* ------------------------------------------------------------------------
\* Properties of the two flows
\* ------------------------------------------------------------------------
\* C8: in mergeMR.js the merge call is issued only after the QA comment has
\* been posted to Jira in the same run.
C8_MergeAfterComment ==
  \A i \in 1..Len(calls) :
    calls[i].op = "merge" =>
      \E j \in 1..(i - 1) : calls[j].op = "comment" /\ calls[j].ok

\* C9: every inline suggestion posted to the discussions endpoint names the
\* new_path of an entry of the MR's changes; a suggestion of the model for
\* any other file is never posted.
C9_OnlyChangedFiles ==
  \A i \in 1..Len(posted) : posted[i] \in changes

\* a run that posted a suggestion although the model's answer also named a
\* file the MR does not change
C9_Witness ==
  /\ ppc = "done"
  /\ Len(posted) >= 1
  /\ \E i \in 1..Len(raw) : raw[i] \notin changes

\* ------------------------------------------------------------------------
\* Round trip of a paragraph-only document (mergeMR.js)
\* ------------------------------------------------------------------------
\* docLines is the serialization of the paragraph-only document whose i-th
\* paragraph has the text docLines[i]: one paragraph's text per line
SerializedDoc == [i \in 1..Len(docLines) |-> Paragraph(docLines[i], FALSE)]

\* the compiled document is paragraphs only, with the texts of d in order
SameParagraphs(d) ==
  /\ Len(content) = Len(d)
  /\ \A i \in 1..Len(d) :
       content[i].type = "paragraph" /\ content[i].text = d[i].text

\* a paragraph text the compiler reads back as itself: no white space at
\* either end, no "**", no fence, bullet or heading marker at its start
ReadsBack(t) ==
  /\ Trim(t) = t
  /\ ~HasStars(t)
  /\ ~LooksFence(t)
  /\ ~HasPrefix(t, <<Bullet>>)
  /\ ~HasPrefix(t, <<"#", "#", "#">>)

\* C11 as stated: compiling the serialization of any paragraph-only document
\* yields the same number of paragraphs with the same texts in the same
\* order, and no heading, list or code block.
C11_Original ==
  (variant = "mergeMR" /\ apc = "done") => SameParagraphs(SerializedDoc)

\* C11 amended: the round trip preserves a paragraph-only document of at
\* least one paragraph when every paragraph text is free of white space at
\* its ends, holds no "**" and does not start with three backticks, the
\* bullet character or "###"; a text that does is read as a fence, a list
\* item or a heading, or comes back trimmed or without its "**".
C11_RoundTrip ==
  ( /\ variant = "mergeMR" /\ apc = "done"
    /\ \A i \in 1..Len(docLines) : ReadsBack(docLines[i]) )
  => /\ SameParagraphs(SerializedDoc)
     /\ \A i \in 1..Len(content) : ~content[i].strong

\* three paragraphs, one of them empty and one that starts with a star
C11_Witness ==
  /\ variant = "mergeMR" /\ apc = "done"
  /\ Len(docLines) = 3
  /\ \A i \in 1..3 : ReadsBack(docLines[i])
  /\ \E i, j \in 1..3 : docLines[i] = BlankLn /\ docLines[j] = StarItemLn
  /\ SameParagraphs(SerializedDoc)

\* ------------------------------------------------------------------------
\* Frame properties of the diff annotator
\* ------------------------------------------------------------------------
\* the three kinds of diff line: Added (prefix +), Removed (prefix -),
\* Context (no prefix, or a literal space); a line starting @@ is a header
HeaderKind(line)  == HasPrefix(line, <<"@", "@">>)
AddedKind(line)   == HasPrefix(line, <<"+">>)
RemovedKind(line) == HasPrefix(line, <<"-">>)
ContextKind(line) == ~HeaderKind(line) /\ ~AddedKind(line) /\ ~RemovedKind(line)

\* the step that consumes the next line of the diff
ConsumesLine == dpc = "scan" /\ dIdx < Len(lines) /\ dIdx' = dIdx + 1

CounterStep ==
  ConsumesLine =>
    /\ AddedKind(CurLine) => newLine' = newLine + 1 /\ oldLine' = oldLine
    /\ RemovedKind(CurLine) => oldLine' = oldLine + 1 /\ newLine' = newLine
    /\ ContextKind(CurLine) => oldLine' = oldLine + 1 /\ newLine' = newLine + 1
    /\ ~HeaderKind(CurLine) =>
         /\ AddedKind(CurLine) \/ RemovedKind(CurLine) \/ ContextKind(CurLine)
         /\ oldLine' >= oldLine /\ newLine' >= newLine

\* C12: in every step of the scan an Added line changes newLine by exactly
\* +1 and leaves oldLine unchanged, a Removed line changes oldLine by exactly
\* +1 and leaves newLine unchanged, a Context line changes both by exactly
\* +1; every non-header line is of one of these kinds, so between two
\* headers neither counter decreases; a step that consumes no line changes
\* neither counter.
C12_CounterFrame ==
  [][ /\ CounterStep
      /\ ~ConsumesLine => oldLine' = oldLine /\ newLine' = newLine ]_vars

\* one line of each kind after a header: 5,3 / 5,3 has become 6 / 6
C12_Witness ==
  /\ dpc = "done"
  /\ lines = <<Hdr(5, 3, 5, 3), AddedLn, RemovedLn, ContextLn>>
  /\ oldLine = 6 /\ newLine = 6
  /\ fileContent[3] = <<"+", "5", " ", "a">>
  /\ fileContent[4] = <<"-", "5", " ", "b">>

\* a line that starts with @@ and does not match the hunk-header pattern
MalformedHeader(line) == HeaderKind(line) /\ ~HunkExec(line).ok

\* the scan is at a malformed header line
AtMalformedHeader == dpc = "scan" /\ dIdx < Len(lines) /\ MalformedHeader(CurLine)

MalformedHeaderStep ==
  AtMalformedHeader =>
    /\ fileContent' = Append(fileContent, CurLine)
    /\ oldLine' = oldLine /\ newLine' = newLine
    /\ dIdx' = dIdx + 1
    /\ dpc' = "scan"

\* C13: a line that starts with @@ but does not match the pattern
\* `@@ -oldStart,oldCount +newStart,newCount @@` is emitted unchanged as one
\* output line and leaves oldLine and newLine as they were; the scan does
\* not fail on it: the step over the line is always possible, goes on to
\* the following line, and the scan returns only after the last line.
C13_MalformedHeader ==
  /\ [][MalformedHeaderStep]_vars
  /\ [](AtMalformedHeader => ENABLED DiffHeader)
  /\ [](dpc = "done" => dIdx = Len(lines))

\* a malformed header in the middle of a hunk: the Added line after it is
\* numbered as the hunk's second line
C13_Witness ==
  /\ dpc = "done"
  /\ lines = <<Hdr(5, 3, 5, 3), AddedLn, ShortHdr, AddedLn>>
  /\ fileContent[4] = ShortHdr
  /\ fileContent[5] = <<"+", "6", " ", "a">>

\* ------------------------------------------------------------------------
\* Bullet lists of the document compilers
\* ------------------------------------------------------------------------
\* line i is read as a bullet line by the compiler of script v
BulletLine(v, i) ==
  LET t == Trim(docLines[i])
  IN  IF v = "mergeMR"
      THEN ~LooksFence(docLines[i]) /\ ~InsideCode(i) /\ HasPrefix(t, <<Bullet>>)
      ELSE /\ t # <<>>
           /\ ~HasPrefix(docLines[i], <<"#", "#", " ">>)
           /\ ~HasPrefix(docLines[i], <<"#", " ">>)
           /\ HasPrefix(t, <<"*", " ">>) \/ HasPrefix(t, <<"-", " ">>)

\* line i is the r-th bullet line of the text
BulletRank(i) == Cardinality({j \in 1..i : BulletLine(variant, j)})

\* the index of the node of c, from node n on, that holds the r-th list item
\* counted from node n; 0 when there is none
RECURSIVE ItemNode(_, _, _)
ItemNode(c, n, r) ==
  IF n > Len(c) THEN 0
  ELSE LET k == IF c[n].type = "bulletList" THEN Len(c[n].items) ELSE 0
       IN  IF r <= k THEN n ELSE ItemNode(c, n + 1, r - k)

\* the bulletList node of the returned document that holds the item of
\* bullet line i
ListOf(i) == ItemNode(content, 1, BulletRank(i))

\* C14: in both compilers the items of consecutive bullet lines are in one
\* and the same bulletList node, and two bullet lines with a non-bullet line
\* (heading, plain, bold, blank, fence) between them are never in the same
\* bulletList node.
C14_ListContiguity ==
  apc = "done" =>
    \A i, k \in 1..Len(docLines) :
      (i < k /\ BulletLine(variant, i) /\ BulletLine(variant, k)) =>
        /\ ListOf(i) # 0 /\ ListOf(k) # 0
        /\ (\A j \in i..k : BulletLine(variant, j)) => ListOf(i) = ListOf(k)
        /\ (\E j \in i..k : ~BulletLine(variant, j)) => ListOf(i) # ListOf(k)

\* the list items of the nodes c, in document order
RECURSIVE AllItems(_)
AllItems(c) ==
  IF c = <<>> THEN <<>>
  ELSE (IF c[1].type = "bulletList" THEN c[1].items ELSE <<>>) \o AllItems(Tail(c))

\* the content of a bullet line: the line without the white space before the
\* marker, the marker and the white space after it (mergeMR.js trims the
\* end of the line as well)
MarkerStripped(v, line) ==
  LET s    == TrimStart(line)
      rest == TrimStart(SubSeq(s, 2, Len(s)))
  IN  IF v = "mergeMR" THEN TrimEnd(rest) ELSE rest

MarkerChars == {Bullet, "*", "-"}

\* C15: in both compilers every line read as a bullet line, with or without
\* leading white space, contributes one list item whose text is the line's
\* content with the bullet marker and the white space after it removed; no
\* item text has the marker in front of that content.
C15_MarkerStripped ==
  apc = "done" =>
    /\ Len(AllItems(content)) = BulletRank(Len(docLines))
    /\ \A i \in 1..Len(docLines) :
         BulletLine(variant, i) =>
           LET text == AllItems(content)[BulletRank(i)].text
           IN  /\ text = MarkerStripped(variant, docLines[i])
               /\ TrimStart(text) # <<>> => TrimStart(text)[1] \notin MarkerChars

\* the list items collected so far: those of the document and, during the
\* scan, those of the open list
Collected ==
  AllItems(content) \o
    (IF apc = "scan" /\ currentList # <<>> THEN currentList[1].items ELSE <<>>)

\* C16: in mergeMR.js a bullet list that is still open when the scan reaches
\* the end of the input is appended to the document and is its last block
\* node; at every point of the scan and in the returned document there is
\* one item per bullet line consumed, in order, none missing.
C16_OpenListAppended ==
  (variant = "mergeMR" /\ apc \in {"scan", "done"}) =>
    /\ Len(Collected) = BulletRank(aIdx)
    /\ \A i \in 1..aIdx :
         BulletLine(variant, i) =>
           Collected[BulletRank(i)] = ListItem(MarkerStripped(variant, docLines[i]))
    /\ (apc = "done" /\ currentList # <<>>) =>
         /\ Len(content) >= 1
         /\ content[Len(content)] = currentList[1]

\* a text that ends in two bullet lines: the list is the last node
C16_Witness ==
  /\ variant = "mergeMR" /\ apc = "done"
  /\ docLines = <<PlainLn, DotBulletLn, DotBulletLn>>
  /\ content = << Paragraph(PlainLn, FALSE),
                  BulletList(<<ListItem(<<"a">>), ListItem(<<"a">>)>>) >>

\* ------------------------------------------------------------------------
\* Order of the block nodes (mergeMR.js)
\* ------------------------------------------------------------------------
\* line i produces a heading or a paragraph
TextLine(i) ==
  ~LooksFence(docLines[i]) /\ ~InsideCode(i) /\ ~BulletLine("mergeMR", i)

\* the r-th fence line, bullet line, heading-or-paragraph line of the text
NthFence(r) ==
  CHOOSE i \in 1..Len(docLines) :
    LooksFence(docLines[i]) /\ FencesBefore(i) = r - 1
NthBullet(r) ==
  CHOOSE i \in 1..Len(docLines) :
    BulletLine("mergeMR", i) /\ BulletRank(i) = r
NthText(r) ==
  CHOOSE i \in 1..Len(docLines) :
    TextLine(i) /\ Cardinality({j \in 1..i : TextLine(j)}) = r

\* the first input line that contributed to node n of the document: the
\* opening fence of a code block, the first bullet line of a list, the line
\* of a heading or paragraph
SourceLine(n) ==
  LET before == SubSeq(content, 1, n - 1)
  IN  IF content[n].type = "codeBlock"
      THEN NthFence(2 * Len(CodeNodes(before)) + 1)
      ELSE IF content[n].type = "bulletList"
      THEN NthBullet(Len(AllItems(before)) + 1)
      ELSE NthText(TextNodeCount(before) - Len(AllItems(before)) + 1)

\* C17: in mergeMR.js the block nodes of the returned document are in the
\* order of the input lines that produced them; a bulletList whose bullet
\* lines precede a fenced code block precedes the codeBlock node, and bullet
\* lines on either side of a code block are in different lists.
C17_InputOrder ==
  (variant = "mergeMR" /\ apc = "done") =>
    /\ \A n \in 1..(Len(content) - 1) : SourceLine(n) < SourceLine(n + 1)
    /\ \A i, j, k, l \in 1..Len(docLines) :
         (BulletLine("mergeMR", i) /\ i < j /\ FencePair(j, k)
            /\ BulletLine("mergeMR", l) /\ k < l)
         => ListOf(i) # ListOf(l)

\* ------------------------------------------------------------------------
\* Unclosed fences (mergeMR.js)
\* ------------------------------------------------------------------------
\* sub occurs in s
Contains(s, sub) ==
  \E q \in 1..(Len(s) - Len(sub) + 1) : SubSeq(s, q, q + Len(sub) - 1) = sub

\* C18: in mergeMR.js the scan never returns in code-block mode with
\* buffered text that was not emitted: every line read in code-block mode,
\* also after a fence that is never closed, is in the text of some codeBlock
\* node of the returned document.
C18_NoCodeLost ==
  (variant = "mergeMR" /\ apc = "done") =>
    /\ ~(inCodeBlock /\ codeText # <<>>)
    /\ \A k \in 1..Len(docLines) :
         InsideCode(k) =>
           \E n \in 1..Len(content) :
             /\ content[n].type = "codeBlock"
             /\ Contains(content[n].text, docLines[k] \o <<NL>>)

\* ------------------------------------------------------------------------
\* Counters at the end of a hunk
\* ------------------------------------------------------------------------
\* line i is a line of the old file, of the new file
OldFileLine(i) == RemovedKind(lines[i]) \/ HasPrefix(lines[i], <<" ">>)
NewFileLine(i) == AddedKind(lines[i]) \/ HasPrefix(lines[i], <<" ">>)

\* the scan has consumed the hunk of the header at line j and stands at the
\* next header or at the end of the text
AtHunkEnd(j) ==
  /\ j <= dIdx
  /\ \A i \in (j + 1)..dIdx : ~HeaderKind(lines[i])
  /\ dIdx = Len(lines) \/ HeaderKind(lines[dIdx + 1])

\* C19: for a hunk with well-formed header `@@ -a,m +b,n @@` whose body has
\* exactly m old-file lines (removed and context) and n new-file lines
\* (added and context), oldLine = a + m - 1 and newLine = b + n - 1 when the
\* scan reaches the next header or the end of the text; the empty string
\* after a trailing newline and a no-newline marker advance neither counter.
C19_HunkEndCounters ==
  \A j \in 1..Len(lines) : \A h \in HdrParams :
    ( /\ lines[j] = Hdr(h[1], h[2], h[3], h[4])
      /\ AtHunkEnd(j)
      /\ Cardinality({i \in (j + 1)..dIdx : OldFileLine(i)}) = h[2]
      /\ Cardinality({i \in (j + 1)..dIdx : NewFileLine(i)}) = h[4] )
    => /\ oldLine = h[1] + h[2] - 1
       /\ newLine = h[3] + h[4] - 1

\* ------------------------------------------------------------------------
\* Failures in mergeMR.js main
\* ------------------------------------------------------------------------
MergeCalls == {i \in 1..Len(calls) : calls[i].op = "merge"}

\* a request has failed
SomeCallFailed == \E i \in 1..Len(calls) : ~calls[i].ok

\* the step that fetches the QA account either succeeds and goes on to the
\* comment, or fails and enters the catch block; it sends no write request
AccountStep ==
  mpc = "account" => mpc' \in {"comment", "caught"} /\ calls' = calls

\* C20: in a run of mergeMR.js main the merge call is issued at most once; a
\* failed comment, assignment or merge request is the last request of the
\* run and a failed fetch of the QA account sends none, each taking main to
\* its catch block, where nothing more is sent: no merge call and no
\* comment or assignment of a later ticket follows the failure.
C20_FailureStopsRun ==
  /\ [](Cardinality(MergeCalls) <= 1)
  /\ [](\A i \in 1..Len(calls) : ~calls[i].ok => i = Len(calls))
  /\ [](SomeCallFailed => mpc = "caught")
  /\ [](mpc = "caught" => ~ENABLED NextMerge)
  /\ [][AccountStep]_vars

\* the assignment of the first of two tickets failed after its comment was
\* posted: the run is in the catch block with no merge call
C20_Witness ==
  /\ mpc = "caught"
  /\ Len(jiraTickets) = 2 /\ tIdx = 0
  /\ calls = << Call("comment", jiraTickets[1], TRUE),
                Call("assign", jiraTickets[1], FALSE) >>

====
